---- MODULE Spec2Model ----
(***************************************************************************)
(* The conversation / tool orchestration engine of the SQL agent:          *)
(* backend/agent/graph.py (assistant, critic_node, after_tools_decision,   *)
(* build_graph) driven by backend/app.py (chat, chat_resume,               *)
(* _try_cache_response).  One session (one thread_id) is modelled; pc is   *)
(* the node of the graph that runs next.                                   *)
(***************************************************************************)
EXTENDS Integers, Sequences, FiniteSets, TLC

\* ------------------------------------------------------------------ bounds
\* user turns (chat calls) of the session
MaxTurns == 2
\* messages of the session
MaxMessages == 13
\* faults of the session: a run_sql result outside CommonResults, a failed
\* call of the critic model, a failed call of the assistant model
MaxFaults == 1

\* --------------------------------------------------------------- constants
max_critic_attempts == 3

\* cache operations of one turn, when chat_resume is repeated
MaxCacheOps == 2

\* chat requests, when requests overlap
MaxRequests == 3

\* ------------------------------------------------------------------- texts
\* Texts are drawn from a small vocabulary.  lower() and the substring test
\* `kw in text` are tables over that vocabulary.

QPlain == "How many flights to Moscow"
QVis == "Plot flights by city"
Queries == {QPlain, QVis}

ErrNone == ""
ErrBlank == "  "
ErrPlain == "invalid input syntax for type json"
ErrWord == "Syntax ERROR near FROM"
ErrorTexts == {ErrNone, ErrBlank, ErrPlain, ErrWord}

CritOther == "use table bookings"
CritClients == "join table Clients"
CritDegraded == "[Critic] analysis failed, continuing without critique"
CritiqueTexts == {CritOther, CritClients}

RawGarbage == "Traceback: query crashed"
RawClosed == "Server closed the connection unexpectedly"

TxtAnswer == "| city | flights |"
TxtNoDataEmpty == "Po tekushchemu zaprosu ne najdeno dannyh."
TxtNoDataFor == "Po zaprosu <q> dannye ne najdeny."
TxtFallback == "Ne udalos poluchit dannye iz BD. Poslednyaya oshibka: <err>"
TxtApology == "Proizoshla oshibka pri formirovanii zaprosa."
TxtTempError == "Proizoshla vremennaya oshibka."
TxtCached == "cached answer"
TxtSchema == "TABLE flights (flight_id int, city jsonb)"

\* str.lower()
Lower(t) ==
    CASE t = QPlain -> "how many flights to moscow"
      [] t = QVis -> "plot flights by city"
      [] t = ErrWord -> "syntax error near from"
      [] t = CritClients -> "join table clients"
      [] t = CritDegraded -> "[critic] analysis failed, continuing without critique"
      [] t = RawGarbage -> "traceback: query crashed"
      [] t = RawClosed -> "server closed the connection unexpectedly"
      [] t = TxtNoDataEmpty -> "po tekushchemu zaprosu ne najdeno dannyh."
      [] t = TxtNoDataFor -> "po zaprosu <q> dannye ne najdeny."
      [] t = TxtFallback -> "ne udalos poluchit dannye iz bd. poslednyaya oshibka: <err>"
      [] t = TxtApology -> "proizoshla oshibka pri formirovanii zaprosa."
      [] t = TxtTempError -> "proizoshla vremennaya oshibka."
      [] t = TxtSchema -> "table flights (flight_id int, city jsonb)"
      [] OTHER -> t

\* str.strip()
Strip(t) == IF t = ErrBlank THEN "" ELSE t

\* `kw in t` for the texts of the vocabulary (t as written, no case folding)
Contains(t, kw) ==
    <<t, kw>> \in { <<"plot flights by city", "plot">>,
                    <<"syntax error near from", "error">>,
                    <<"join table clients", "clients">>,
                    <<"server closed the connection unexpectedly", "server closed">>,
                    <<"po tekushchemu zaprosu ne najdeno dannyh.", "ne najden">>,
                    <<"po zaprosu <q> dannye ne najdeny.", "ne najden">>,
                    <<"ne udalos poluchit dannye iz bd. poslednyaya oshibka: <err>", "oshibka">>,
                    <<"proizoshla oshibka pri formirovanii zaprosa.", "oshibka">>,
                    <<"proizoshla vremennaya oshibka.", "oshibka">> }

VIS_KEYWORDS == {"grafik", "diagramm", "chart", "plot", "narisuj", "vizualiz",
                 "postroj", "bar", "pie", "linejnyj", "stolbchat", "krugovaya",
                 "heatmap"}

_is_vis_request(text) == \E kw \in VIS_KEYWORDS : Contains(Lower(text), kw)

\* ---------------------------------------------------------------- messages
\* content of a message: plain text, or the text of a tool result, which
\* json.loads reads as an object (kind "object") or rejects (kind "raw")
Text(t) ==
    [kind |-> "text", text |-> t, arg |-> "", success |-> FALSE, row_count |-> 0,
     error |-> "", is_connection_error |-> FALSE, data |-> 0]

TextAbout(t, a) == [Text(t) EXCEPT !.arg = a]

Payload(s, rc, e, ce, d) ==
    [kind |-> "object", text |-> "", arg |-> "", success |-> s, row_count |-> rc,
     error |-> e, is_connection_error |-> ce, data |-> d]

Raw(t) == [Text(t) EXCEPT !.kind = "raw"]

\* content that is JSON but not a JSON object, such as "[]"
JsonValue(t) == [Text(t) EXCEPT !.kind = "value"]

HumanMessage(q) == [type |-> "human", name |-> "", tool_call |-> "", content |-> Text(q)]
AIMessage(c) == [type |-> "ai", name |-> "", tool_call |-> "", content |-> c]
AIToolCall(tool) == [type |-> "ai", name |-> "", tool_call |-> tool, content |-> Text("")]
CriticMessage(n, t) ==
    [type |-> "ai", name |-> "sql_critic", tool_call |-> "", content |-> TextAbout(t, ToString(n))]
ToolMessage(tool, c) == [type |-> "tool", name |-> tool, tool_call |-> "", content |-> c]

Last(s) == s[Len(s)]

IsRunSqlResult(m) == m.type = "tool" /\ m.name = "run_sql"
IsCritic(m) == m.type = "ai" /\ m.name = "sql_critic"

\* json.loads(content) succeeds and gives a dict
Parses(c) == c.kind = "object"

\* --------------------------------------------------- graph.py: pure parts

_final_no_data_message(original_query) ==
    LET query == Strip(original_query)
    IN  IF query = "" THEN Text(TxtNoDataEmpty) ELSE TextAbout(TxtNoDataFor, query)

\* index of the last HumanMessage (0: none)
LastHumanIdx(msgs) ==
    LET H == {i \in 1..Len(msgs) : msgs[i].type = "human"}
    IN  IF H = {} THEN 0 ELSE CHOOSE i \in H : \A j \in H : j <= i

\* graph.py 369-379: run_sql results after the last HumanMessage that parse,
\* succeeded and have row_count 0
zero_rows_in_current_request(msgs) ==
    Cardinality({i \in (LastHumanIdx(msgs) + 1)..Len(msgs) :
                    /\ IsRunSqlResult(msgs[i])
                    /\ Parses(msgs[i].content)
                    /\ msgs[i].content.success
                    /\ msgs[i].content.row_count = 0})

\* graph.py 358-361: all messages tagged sql_critic, oldest first
critic_messages(msgs) == SelectSeq(msgs, IsCritic)

\* CriticLoopsOnClients that waits for a third critic message
CriticLoopsOnClients_NeedsThree(msgs) ==
    LET cm == critic_messages(msgs)
        n == Len(cm)
    IN  /\ n >= 3
        /\ \A i \in {n - 1, n} : Contains(Lower(cm[i].content.text), "clients")

\* graph.py 363-367
CriticLoopsOnClients(msgs) ==
    LET cm == critic_messages(msgs)
        n == Len(cm)
    IN  /\ n >= 2
        /\ \A i \in {n - 1, n} : Contains(Lower(cm[i].content.text), "clients")

\* ZeroRowsLoop with the threshold off by one (>= 4 for >= 3)
ZeroRowsLoop_ThresholdOffByOne(msgs) ==
    /\ Len(critic_messages(msgs)) >= 2
    /\ zero_rows_in_current_request(msgs) >= 4

\* graph.py 363, 369-382
ZeroRowsLoop(msgs) ==
    /\ Len(critic_messages(msgs)) >= 2
    /\ zero_rows_in_current_request(msgs) >= 3

schema_calls(msgs) ==
    Cardinality({i \in 1..Len(msgs) :
                    msgs[i].type = "tool" /\ msgs[i].name = "get_postgres_schema"})

\* RouterView that never takes text that is not JSON for a connection error
RouterView_RawNeverConnection(c) ==
    IF Parses(c)
    THEN [success |-> c.success, row_count |-> c.row_count, error_text |-> c.error,
          is_connection_error |-> c.is_connection_error, data |-> c.data]
    ELSE [success |-> FALSE, row_count |-> 0, error_text |-> c.text,
          is_connection_error |-> FALSE, data |-> 0]

\* graph.py 339-349: the fields the router reads off the last tool message
RouterView(c) ==
    IF Parses(c)
    THEN [success |-> c.success, row_count |-> c.row_count, error_text |-> c.error,
          is_connection_error |-> c.is_connection_error, data |-> c.data]
    ELSE [success |-> FALSE, row_count |-> 0, error_text |-> c.text,
          is_connection_error |-> Contains(Lower(c.text), "server closed"), data |-> 0]

\* has_error that also counts an empty result as an error
has_error_EmptyIsError(r) ==
    ~r.success \/ r.row_count = 0 \/ Contains(Lower(r.error_text), "error")

\* graph.py 355
has_error(r) == ~r.success \/ Contains(Lower(r.error_text), "error")

\* MainPolicy with the budget test off by one (<= for <)
MainPolicy_BudgetOffByOne(r, critic_attempts, original_query) ==
    IF has_error(r) /\ critic_attempts <= max_critic_attempts THEN "critic"
    ELSE IF r.row_count = 0 THEN "assistant"
    ELSE IF critic_attempts >= max_critic_attempts THEN "assistant"
    ELSE IF ~r.success \/ r.row_count = 0 THEN "END"
    ELSE IF _is_vis_request(original_query) /\ r.data > 0 THEN "graph_vis"
    ELSE IF r.data > 0 THEN "assistant"
    ELSE "END"

\* graph.py 390-418: the main policy, after the loop guards
MainPolicy(r, critic_attempts, original_query) ==
    IF has_error(r) /\ critic_attempts < max_critic_attempts THEN "critic"
    ELSE IF r.row_count = 0 THEN "assistant"
    ELSE IF critic_attempts >= max_critic_attempts THEN "assistant"
    ELSE IF ~r.success \/ r.row_count = 0 THEN "END"
    ELSE IF _is_vis_request(original_query) /\ r.data > 0 THEN "graph_vis"
    ELSE IF r.data > 0 THEN "assistant"
    ELSE "END"

\* after_tools_decision with the connection test moved behind the loop guards
after_tools_decision_GuardsFirst(msgs, critic_attempts, original_query) ==
    LET last_tool_msg == Last(msgs)
        r == RouterView(last_tool_msg.content)
    IN  IF last_tool_msg.name = "get_postgres_schema"
        THEN (IF schema_calls(msgs) >= 2 THEN "END" ELSE "assistant")
        ELSE IF last_tool_msg.name # "run_sql" THEN "END"
        ELSE IF CriticLoopsOnClients(msgs) THEN "assistant"
        ELSE IF ZeroRowsLoop(msgs) THEN "assistant"
        ELSE IF r.is_connection_error THEN "END"
        ELSE MainPolicy(r, critic_attempts, original_query)

\* graph.py 318-418
after_tools_decision(msgs, critic_attempts, original_query) ==
    LET last_tool_msg == Last(msgs)
        r == RouterView(last_tool_msg.content)
    IN  IF last_tool_msg.name = "get_postgres_schema"
        THEN (IF schema_calls(msgs) >= 2 THEN "END" ELSE "assistant")
        ELSE IF last_tool_msg.name # "run_sql" THEN "END"
        ELSE IF last_tool_msg.content.kind = "value" THEN "raise"
        ELSE IF r.is_connection_error THEN "END"
        ELSE IF CriticLoopsOnClients(msgs) THEN "assistant"
        ELSE IF ZeroRowsLoop(msgs) THEN "assistant"
        ELSE MainPolicy(r, critic_attempts, original_query)

\* assistant_rule with the budget test off by one (> 3 for >= 3)
assistant_rule_BudgetOffByOne(msgs, critic_attempts) ==
    LET last_msg == Last(msgs)
        c == last_msg.content
    IN  IF IsRunSqlResult(last_msg) /\ Parses(c) /\ c.success /\ c.row_count = 0
        THEN "nodata"
        ELSE IF /\ critic_attempts > 3
                /\ IsRunSqlResult(last_msg)
                /\ Parses(c)
                /\ ~c.success
                /\ Strip(c.error) # ""
        THEN "fallback"
        ELSE "llm"

\* assistant_rule without the first rule (graph.py 84-90): the no-data
\* message only once the budget is exhausted
assistant_rule_NoDataAtBudgetOnly(msgs, critic_attempts) ==
    LET last_msg == Last(msgs)
        c == last_msg.content
    IN  IF /\ critic_attempts >= 3
           /\ IsRunSqlResult(last_msg)
           /\ Parses(c)
           /\ c.success
           /\ c.row_count = 0
        THEN "nodata"
        ELSE IF /\ critic_attempts >= 3
                /\ IsRunSqlResult(last_msg)
                /\ Parses(c)
                /\ ~c.success
                /\ Strip(c.error) # ""
        THEN "fallback"
        ELSE "llm"

\* graph.py 84-115: the deterministic rules of the assistant step
\* "nodata", "fallback", or "llm" when neither rule fires
assistant_rule(msgs, critic_attempts) ==
    LET last_msg == Last(msgs)
        c == last_msg.content
    IN  IF IsRunSqlResult(last_msg) /\ Parses(c) /\ c.success /\ c.row_count = 0
        THEN "nodata"
        ELSE IF /\ critic_attempts >= 3
                /\ IsRunSqlResult(last_msg)
                /\ Parses(c)
                /\ ~c.success
                /\ Strip(c.error) # ""
        THEN "fallback"
        ELSE "llm"

\* assistant_mode that presents the data it has before it looks for a critique
assistant_mode_PresentFirst(msgs, query_result, original_query) ==
    LET came_from_critic == IsCritic(Last(msgs))
        has_data_to_present == query_result > 0
        is_vis == _is_vis_request(original_query)
    IN  IF has_data_to_present THEN "present"
        ELSE IF came_from_critic THEN "repair"
        ELSE IF is_vis THEN "visneed"
        ELSE "default"

\* assistant_mode with the first two tests swapped
assistant_mode_VisFirst(msgs, query_result, original_query) ==
    LET came_from_critic == IsCritic(Last(msgs))
        has_data_to_present == query_result > 0
        is_vis == _is_vis_request(original_query)
    IN  IF is_vis /\ ~has_data_to_present THEN "visneed"
        ELSE IF came_from_critic THEN "repair"
        ELSE IF has_data_to_present THEN "present"
        ELSE "default"

\* graph.py 123-191: the instruction variant
assistant_mode(msgs, query_result, original_query) ==
    LET came_from_critic == IsCritic(Last(msgs))
        has_data_to_present == query_result > 0
        is_vis == _is_vis_request(original_query)
    IN  IF came_from_critic THEN "repair"
        ELSE IF is_vis /\ ~has_data_to_present THEN "visneed"
        ELSE IF has_data_to_present THEN "present"
        ELSE "default"

\* graph.py 117
MAX_HISTORY == 12

\* graph.py 118-121: the recent-history view shown to the model
messages_for_llm(msgs) ==
    IF Len(msgs) > MAX_HISTORY
    THEN SubSeq(msgs, Len(msgs) - MAX_HISTORY + 1, Len(msgs))
    ELSE msgs

\* assistant_result that writes the view back as the messages
assistant_result_OnWindow(msgs, response) == Append(messages_for_llm(msgs), response)

\* graph.py 88, 100, 104-113, 219-221: the step returns its one message, which
\* the state's reducer appends to the persisted messages
assistant_result(msgs, response) == Append(msgs, response)

\* graph.py 138, 149, 165, 181: what the bound tools let the model return
ModelReplies(mode) ==
    CASE mode \in {"repair", "visneed"} -> {AIToolCall("run_sql")}
      [] mode = "present" -> {AIMessage(Text(TxtAnswer)), AIToolCall("run_sql")}
      [] OTHER -> {AIMessage(Text(TxtAnswer)), AIToolCall("run_sql"),
                   AIToolCall("get_postgres_schema")}

\* graph.py 197-199: an invocation fails with a malformed tool call
\* ('tool_use_failed' or 'failed_generation' in the error) or otherwise
InvocationErrors == {"tool_use_failed", "other_error"}

\* ModelOutcomes that retries after every failure of the first invocation
ModelOutcomes_RetryOnAnyError(mode) ==
    {[calls |-> 1, failed |-> FALSE, trace |-> <<"ok">>, response |-> m] :
        m \in ModelReplies(mode)}
    \cup {[calls |-> 2, failed |-> TRUE, trace |-> <<e, "ok">>,
           response |-> AIToolCall("run_sql")] : e \in InvocationErrors}
    \cup {[calls |-> 2, failed |-> TRUE, trace |-> <<e1, e2>>,
           response |-> AIMessage(Text(TxtApology))] :
                e1 \in InvocationErrors, e2 \in InvocationErrors}

\* graph.py 195-217: the outcomes of the model call: the number of
\* invocations, how each ended, and the response of the step
ModelOutcomes(mode) ==
    {[calls |-> 1, failed |-> FALSE, trace |-> <<"ok">>, response |-> m] :
        m \in ModelReplies(mode)}
    \cup {[calls |-> 2, failed |-> TRUE, trace |-> <<"tool_use_failed", "ok">>,
           response |-> AIToolCall("run_sql")]}
    \cup {[calls |-> 2, failed |-> TRUE, trace |-> <<"tool_use_failed", e>>,
           response |-> AIMessage(Text(TxtApology))] : e \in InvocationErrors}
    \cup {[calls |-> 1, failed |-> TRUE, trace |-> <<"other_error">>,
           response |-> AIMessage(Text(TxtTempError))]}

\* graph.py 104-111, 214, 217: the locally built messages
FallbackMessage(c) == AIMessage(TextAbout(TxtFallback, Strip(c.error)))

\* app.py 40-43, 71-72: the response is classified as an error
ERROR_KEYWORDS == {"oshibka", "error", "ne mogu", "nevozmozhno", "nekorrektn",
                   "ne najden", "failed", "{", "success"}

\* is_error without the keyword of the no-data messages
is_error_WithoutNotFound(c) ==
    \/ c.kind = "object"
    \/ \E kw \in ERROR_KEYWORDS \ {"ne najden"} : Contains(Lower(Strip(c.text)), kw)

is_error(c) ==
    \/ c.kind = "object"
    \/ \E kw \in ERROR_KEYWORDS : Contains(Lower(Strip(c.text)), kw)

\* -------------------------------------------------- the external services
\* results of run_sql: {success, row_count, data, error, is_connection_error}
\* as JSON text, or text that is not JSON
RowCounts == {0, 2}

RunSqlResults ==
    {Payload(TRUE, 0, e, FALSE, 0) : e \in {ErrNone, ErrPlain, ErrWord}}
    \cup {Payload(TRUE, 2, ErrNone, FALSE, d) : d \in RowCounts}
    \cup {Payload(TRUE, 2, ErrWord, FALSE, 2)}
    \cup {Payload(FALSE, 0, e, FALSE, 0) : e \in ErrorTexts}
    \cup {Payload(FALSE, 2, e, FALSE, 0) : e \in {ErrNone, ErrPlain}}
    \cup {Payload(s, 0, ErrPlain, TRUE, 0) : s \in BOOLEAN}
    \cup {Raw(RawGarbage), Raw(RawClosed)}

\* the results every execution may give; the others are bounded per session
CommonResults ==
    {Payload(FALSE, 0, ErrPlain, FALSE, 0), Payload(TRUE, 0, ErrWord, FALSE, 0),
     Payload(TRUE, 0, ErrNone, FALSE, 0), Payload(TRUE, 2, ErrNone, FALSE, 2)}

\* the cache store holds any number of entries for a question: every write
\* makes a new point (app.py 88-89)
EmptyStore == [q \in Queries |-> 0]

NoOps == [add |-> 0, delete |-> 0]

\* app.py 575-580, 594-601: the response of chat and chat_resume
NoReply == [status |-> "none", response |-> Text(""), from_cache |-> FALSE]

NeedsHumanInput == [status |-> "needs_human_input", response |-> Text(""), from_cache |-> FALSE]

Completed(final_content, fc) == [status |-> "ok", response |-> final_content, from_cache |-> fc]

NoRuns == <<>>

\* START wired to assistant, past the Cache Gate
entry_point_SkipsGate == "assistant"

\* graph.py 431: the edge out of START
entry_point == "checked_cache"

\* cache_edges with END wired to assistant
cache_edges_EndToAssistant(decision) == "assistant"

\* graph.py 432-439: where the decision of cache_should_continue leads
cache_edges(decision) == IF decision = "assistant" THEN "assistant" ELSE "END"

\* ------------------------------------------------------------------- state
VARIABLES
    messages,           \* Session State: the turns, append-only
    original_query,     \* the question of the current turn
    query_result,       \* rows of the most recent successful result set
    critic_attempts,
    critic_ran_last,
    from_cache,
    cache_reject_query,
    pc,                 \* the node that runs next; "idle", "suspended", "END"
    last_node,          \* the node that ran last
    asst_mode,          \* what the last assistant step did
    llm_calls,          \* model invocations of the last assistant step
    llm_trace,          \* how each of them ended
    via,                \* the endpoint that started the run: "chat", "resume"
    turns,              \* chat calls so far
    faults,             \* faults so far
    cache,              \* the cache store: entries per question
    cache_ops,          \* add_documents and delete_cache_entry calls since the last chat call
    reply,              \* what the last chat or chat_resume call returned
    runs                \* the requests in flight, when requests overlap

vars == <<messages, original_query, query_result, critic_attempts, critic_ran_last,
          from_cache, cache_reject_query, pc, last_node, asst_mode, llm_calls, llm_trace, via,
          turns, faults, cache, cache_ops, reply, runs>>

Init ==
    /\ messages = <<>>
    /\ original_query = ""
    /\ query_result = 0
    /\ critic_attempts = 0
    /\ critic_ran_last = FALSE
    /\ from_cache = FALSE
    /\ cache_reject_query = ""
    /\ pc = "idle"
    /\ last_node = "none"
    /\ asst_mode = "none"
    /\ llm_calls = 0
    /\ llm_trace = <<>>
    /\ via = "none"
    /\ turns = 0
    /\ faults = 0
    /\ cache = EmptyStore
    /\ cache_ops = NoOps
    /\ reply = NoReply
    /\ runs = NoRuns

\* execute_tools.should_continue: the assistant's message asks for a tool
should_continue(msgs) == IF Last(msgs).tool_call # "" THEN "tools" ELSE "END"

\* app.py 552-568: chat starts a run of the graph with the new HumanMessage
Chat(q) ==
    /\ pc = "idle"
    /\ turns < MaxTurns
    /\ Len(messages) < MaxMessages
    /\ messages' = Append(messages, HumanMessage(q))
    /\ pc' = entry_point
    /\ via' = "chat"
    /\ cache_ops' = NoOps
    /\ turns' = turns + 1
    /\ last_node' = "START"
    /\ UNCHANGED <<original_query, query_result, critic_attempts, critic_ran_last,
                   from_cache, cache_reject_query, asst_mode, llm_calls, llm_trace, faults, cache,
                   reply, runs>>

\* qdrant.checked_cache and cache_should_continue: the Cache Gate
CheckedCache ==
    /\ pc = "checked_cache"
    /\ original_query' = Last(messages).content.text
    /\ critic_attempts' = 0
    /\ critic_ran_last' = FALSE
    /\ from_cache' = FALSE
    /\ cache_reject_query' = ""
    /\ IF cache[Last(messages).content.text] > 0
       THEN pc' = "suspended" /\ reply' = NeedsHumanInput
       ELSE pc' = cache_edges("assistant") /\ reply' = reply
    /\ last_node' = "checked_cache"
    /\ UNCHANGED <<messages, query_result, asst_mode, llm_calls, llm_trace, via, turns, faults, cache,
                   cache_ops, runs>>

\* app.py 623-634 with the Cache Gate's accept branch
ResumeAccept ==
    /\ pc = "suspended"
    /\ Len(messages) < MaxMessages
    /\ from_cache' = TRUE
    /\ messages' = Append(messages, AIMessage(Text(TxtCached)))
    /\ pc' = cache_edges("END")
    /\ via' = "resume"
    /\ last_node' = "checked_cache"
    /\ UNCHANGED <<original_query, query_result, critic_attempts, critic_ran_last,
                   cache_reject_query, asst_mode, llm_calls, llm_trace, turns, faults, cache, cache_ops, reply, runs>>

\* app.py 623-634 with the Cache Gate's reject branch
ResumeReject ==
    /\ pc = "suspended"
    /\ cache_reject_query' = original_query
    /\ from_cache' = FALSE
    /\ pc' = cache_edges("assistant")
    /\ via' = "resume"
    /\ last_node' = "checked_cache"
    /\ UNCHANGED <<messages, original_query, query_result, critic_attempts,
                   critic_ran_last, asst_mode, llm_calls, llm_trace, turns, faults, cache, cache_ops, reply, runs>>

\* graph.py 79-221 and the edge of 442-449
AssistantStep ==
    /\ pc = "assistant"
    /\ LET rule == assistant_rule(messages, critic_attempts)
           mode == assistant_mode(messages, query_result, original_query)
       IN  \/ /\ rule = "nodata"
              /\ messages' = assistant_result(messages,
                                              AIMessage(_final_no_data_message(original_query)))
              /\ asst_mode' = "nodata"
              /\ llm_calls' = 0
              /\ llm_trace' = <<>>
              /\ faults' = faults
           \/ /\ rule = "fallback"
              /\ messages' = assistant_result(messages,
                                              FallbackMessage(Last(messages).content))
              /\ asst_mode' = "fallback"
              /\ llm_calls' = 0
              /\ llm_trace' = <<>>
              /\ faults' = faults
           \/ /\ rule = "llm"
              /\ \E o \in ModelOutcomes(mode) :
                    /\ o.failed => faults < MaxFaults
                    /\ messages' = assistant_result(messages, o.response)
                    /\ llm_calls' = o.calls
                    /\ llm_trace' = o.trace
                    /\ faults' = IF o.failed THEN faults + 1 ELSE faults
              /\ asst_mode' = mode
    /\ pc' = should_continue(messages')
    /\ last_node' = "assistant"
    /\ UNCHANGED <<original_query, query_result, critic_attempts, critic_ran_last,
                   from_cache, cache_reject_query, via, turns, cache, cache_ops, reply, runs>>

\* the assistant step of a session within the bound
Assistant ==
    /\ Len(messages) < MaxMessages
    /\ AssistantStep

\* execute_tools.execute_tool_node and the edge of graph.py 451-460
Tools ==
    /\ pc = "tools"
    /\ Len(messages) < MaxMessages
    /\ \/ /\ Last(messages).tool_call = "run_sql"
          /\ \E c \in RunSqlResults :
                /\ c \in CommonResults \/ faults < MaxFaults
                /\ messages' = Append(messages, ToolMessage("run_sql", c))
                /\ query_result' = IF Parses(c) /\ c.success THEN c.data ELSE query_result
                /\ faults' = IF c \in CommonResults THEN faults ELSE faults + 1
       \/ /\ Last(messages).tool_call = "get_postgres_schema"
          /\ messages' = Append(messages, ToolMessage("get_postgres_schema", Text(TxtSchema)))
          /\ UNCHANGED <<query_result, faults>>
    /\ pc' = after_tools_decision(messages', critic_attempts, original_query)
    /\ last_node' = "tools"
    /\ UNCHANGED <<original_query, critic_attempts, critic_ran_last, from_cache,
                   cache_reject_query, asst_mode, llm_calls, llm_trace, via, turns, cache, cache_ops, reply, runs>>

\* critic_update that adds the returned list to the messages it was built from
critic_update_Duplicates(msgs, critic_message) == msgs \o Append(msgs, critic_message)

\* graph.py 300-305, 308-316: the step returns state["messages"] + [message];
\* the state's reducer keeps the messages it already has and appends the new one
critic_update(msgs, critic_message) == Append(msgs, critic_message)

\* graph.py 261-316 and the edge of 440
Critic ==
    /\ pc = "critic"
    /\ Len(messages) < MaxMessages
    /\ critic_attempts' = critic_attempts + 1
    /\ IF \E i \in 1..Len(messages) : IsRunSqlResult(messages[i])
       THEN /\ \/ /\ \E t \in CritiqueTexts :
                        messages' = critic_update(messages,
                                                  CriticMessage(critic_attempts + 1, t))
                  /\ faults' = faults
               \/ /\ faults < MaxFaults
                  /\ messages' = critic_update(messages, CriticMessage(0, CritDegraded))
                  /\ faults' = faults + 1
            /\ critic_ran_last' = TRUE
       ELSE UNCHANGED <<messages, critic_ran_last, faults>>
    /\ pc' = "assistant"
    /\ last_node' = "critic"
    /\ UNCHANGED <<original_query, query_result, from_cache, cache_reject_query,
                   asst_mode, llm_calls, llm_trace, via, turns, cache, cache_ops, reply, runs>>

\* vis_edges with the last stage wired back to assistant
vis_edges_BackToAssistant(node) ==
    CASE node = "graph_vis" -> "review_visualization"
      [] node = "review_visualization" -> "safe_exec"
      [] node = "safe_exec" -> "assistant"

\* graph.py 462-464: the edges of the visualization chain
vis_edges(node) ==
    CASE node = "graph_vis" -> "review_visualization"
      [] node = "review_visualization" -> "safe_exec"
      [] node = "safe_exec" -> "END"

\* visual.graph_vis, review_visualization, safe_exec and the edges of 462-464
GraphVis ==
    /\ pc = "graph_vis"
    /\ pc' = vis_edges("graph_vis")
    /\ last_node' = "graph_vis"
    /\ UNCHANGED <<messages, original_query, query_result, critic_attempts,
                   critic_ran_last, from_cache, cache_reject_query, asst_mode,
                   llm_calls, llm_trace, via, turns, faults, cache, cache_ops, reply, runs>>

ReviewVisualization ==
    /\ pc = "review_visualization"
    /\ pc' = vis_edges("review_visualization")
    /\ last_node' = "review_visualization"
    /\ UNCHANGED <<messages, original_query, query_result, critic_attempts,
                   critic_ran_last, from_cache, cache_reject_query, asst_mode,
                   llm_calls, llm_trace, via, turns, faults, cache, cache_ops, reply, runs>>

SafeExec ==
    /\ pc = "safe_exec"
    /\ pc' = vis_edges("safe_exec")
    /\ last_node' = "safe_exec"
    /\ UNCHANGED <<messages, original_query, query_result, critic_attempts,
                   critic_ran_last, from_cache, cache_reject_query, asst_mode,
                   llm_calls, llm_trace, via, turns, faults, cache, cache_ops, reply, runs>>

\* Writes without the test of the error keywords
Writes_NoErrorTest(query, c) == query # ""

\* app.py 67-76: the response is written to the cache
Writes(query, c) == query # "" /\ ~is_error(c)

\* app.py 63-92
CacheAfterWrite(store, query, c) ==
    IF Writes(query, c) THEN [store EXCEPT ![query] = @ + 1] ELSE store

\* qdrant.delete_cache_entry: the entries of the question are removed
delete_cache_entry(store, query) == [store EXCEPT ![query] = 0]

\* app.py 587-588: the write-back of chat
chat_write_back(store, fc, user_message, final_content) ==
    IF fc THEN store ELSE CacheAfterWrite(store, user_message, final_content)

\* app.py 653-661: the write-back of chat_resume
resume_write_back(store, fc, oq, rq, final_content) ==
    IF fc THEN store
    ELSE CacheAfterWrite(IF Strip(rq) # "" THEN delete_cache_entry(store, Strip(rq))
                         ELSE store,
                         Strip(oq), final_content)

\* the calls of add_documents and delete_cache_entry the write-back makes
write_back_ops(ops, endpoint, fc, query, rq, final_content) ==
    [add |-> ops.add + (IF ~fc /\ Writes(query, final_content) THEN 1 ELSE 0),
     delete |-> ops.delete
                + (IF endpoint = "resume" /\ ~fc /\ Strip(rq) # "" THEN 1 ELSE 0)]

\* app.py 583-603 (chat) and 649-675 (chat_resume): the run has ended, the
\* answer is written back to the cache and returned
Respond ==
    /\ pc = "END"
    /\ LET final_content == Last(messages).content
           user_message == messages[LastHumanIdx(messages)].content.text
           query == IF via = "chat" THEN user_message ELSE Strip(original_query)
       IN  /\ cache' =
                IF via = "chat"
                THEN chat_write_back(cache, from_cache, user_message, final_content)
                ELSE resume_write_back(cache, from_cache, original_query,
                                       cache_reject_query, final_content)
           /\ cache_ops' = write_back_ops(cache_ops, via, from_cache, query,
                                          cache_reject_query, final_content)
           /\ reply' = Completed(final_content, from_cache)
    /\ pc' = "idle"
    /\ UNCHANGED <<messages, original_query, query_result, critic_attempts,
                   critic_ran_last, from_cache, cache_reject_query, last_node,
                   asst_mode, llm_calls, llm_trace, via, turns, faults, runs>>

Next ==
    \/ \E q \in Queries : Chat(q)
    \/ CheckedCache
    \/ ResumeAccept
    \/ ResumeReject
    \/ Assistant
    \/ Tools
    \/ Critic
    \/ GraphVis
    \/ ReviewVisualization
    \/ SafeExec
    \/ Respond

Spec == Init /\ [][Next]_vars

\* app.py 665-675: chat_resume ended with an error status
Failed == [status |-> "error", response |-> Text(""), from_cache |-> FALSE]

\* app.py 623-675: chat_resume for a session whose run has ended and that has
\* no pending suspension.  The graph has nothing to run: it returns the
\* checkpointed state (and chat_resume writes back as for a run that just
\* ended), or it refuses the resume and chat_resume returns an error.
ResumeCompleted ==
    /\ pc = "idle"
    /\ Len(messages) > 0
    /\ cache_ops.add < MaxCacheOps
    /\ cache_ops.delete < MaxCacheOps
    /\ via' = "resume"
    /\ \/ LET final_content == Last(messages).content
          IN  /\ cache' = resume_write_back(cache, from_cache, original_query,
                                            cache_reject_query, final_content)
              /\ cache_ops' = write_back_ops(cache_ops, "resume", from_cache,
                                             Strip(original_query), cache_reject_query,
                                             final_content)
              /\ reply' = Completed(final_content, from_cache)
       \/ /\ reply' = Failed
          /\ UNCHANGED <<cache, cache_ops>>
    /\ UNCHANGED <<messages, original_query, query_result, critic_attempts,
                   critic_ran_last, from_cache, cache_reject_query, pc, last_node,
                   asst_mode, llm_calls, llm_trace, turns, faults, runs>>

\* app.py 187-212: db_connect replaces the graph by build_graph(), whose
\* checkpointer is a new MemorySaver (graph.py 421, 466): the Session State
\* and the suspension kept by the old one are no longer found
DbConnect ==
    /\ pc \in {"idle", "suspended"}
    /\ Len(messages) > 0
    /\ messages' = <<>>
    /\ original_query' = ""
    /\ query_result' = 0
    /\ critic_attempts' = 0
    /\ critic_ran_last' = FALSE
    /\ from_cache' = FALSE
    /\ cache_reject_query' = ""
    /\ pc' = "idle"
    /\ last_node' = "none"
    /\ asst_mode' = "none"
    /\ llm_calls' = 0
    /\ llm_trace' = <<>>
    /\ via' = "none"
    /\ UNCHANGED <<turns, faults, cache, cache_ops, reply, runs>>

ApiNext ==
    \/ Next
    \/ ResumeCompleted
    \/ DbConnect

\* the session with every operation of the API on it
ApiSpec == Init /\ [][ApiNext]_vars

\* ------------------------------------------------- requests that overlap
\* chat is a coroutine: while one request waits for its graph run (app.py
\* 568) the server accepts the next one.  A request in flight is a record of
\* runs; the run of the graph is taken as a whole.
Sessions == {"s1", "s2"}

\* the content of the last message of a run that ended
FinalContents(q) == {Text(TxtAnswer), _final_no_data_message(q)}

Active(r) == runs[r].stage \in {"checked_cache", "running", "END"}

\* app.py 552-568: chat starts a run for the session; nothing is tested or
\* held for the session
ChatBegin(s, q) ==
    /\ Len(runs) < MaxRequests
    /\ runs' = Append(runs, [session |-> s, question |-> q, stage |-> entry_point,
                             final |-> Text("")])
    /\ UNCHANGED <<messages, original_query, query_result, critic_attempts,
                   critic_ran_last, from_cache, cache_reject_query, pc, last_node,
                   asst_mode, llm_calls, llm_trace, via, turns, faults, cache, cache_ops, reply>>

\* qdrant.checked_cache: the lookup of the run's question
RunCheckedCache(r) ==
    /\ runs[r].stage = "checked_cache"
    /\ runs' = [runs EXCEPT ![r].stage =
                    IF cache[runs[r].question] > 0 THEN "suspended" ELSE "running"]
    /\ UNCHANGED <<messages, original_query, query_result, critic_attempts,
                   critic_ran_last, from_cache, cache_reject_query, pc, last_node,
                   asst_mode, llm_calls, llm_trace, via, turns, faults, cache, cache_ops, reply>>

\* app.py 568, 583: the run of the graph ends and chat reads the content of
\* the last message
RunEnds(r) ==
    /\ runs[r].stage = "running"
    /\ \E c \in FinalContents(runs[r].question) :
            runs' = [runs EXCEPT ![r].stage = "END", ![r].final = c]
    /\ UNCHANGED <<messages, original_query, query_result, critic_attempts,
                   critic_ran_last, from_cache, cache_reject_query, pc, last_node,
                   asst_mode, llm_calls, llm_trace, via, turns, faults, cache, cache_ops, reply>>

\* app.py 587-601: the write-back of the request and its response
ChatWriteBack(r) ==
    /\ runs[r].stage = "END"
    /\ cache' = chat_write_back(cache, FALSE, runs[r].question, runs[r].final)
    /\ runs' = [runs EXCEPT ![r].stage = "returned"]
    /\ UNCHANGED <<messages, original_query, query_result, critic_attempts,
                   critic_ran_last, from_cache, cache_reject_query, pc, last_node,
                   asst_mode, llm_calls, llm_trace, via, turns, faults, cache_ops, reply>>

ConcNext ==
    \/ \E s \in Sessions, q \in Queries : ChatBegin(s, q)
    \/ \E r \in 1..Len(runs) : RunCheckedCache(r)
    \/ \E r \in 1..Len(runs) : RunEnds(r)
    \/ \E r \in 1..Len(runs) : ChatWriteBack(r)

ConcSpec == Init /\ [][ConcNext]_vars

\* ------------------------------------------- the router on every input
\* after_tools_decision as a function: the last tool message is drawn from
\* every tool name and every content, after each of a few histories
ToolNames == {"run_sql", "get_postgres_schema", "other_tool"}

AllContents ==
    {Payload(s, rc, e, ce, d) :
        s \in BOOLEAN, rc \in RowCounts, e \in ErrorTexts, ce \in BOOLEAN, d \in RowCounts}
    \cup {Raw(RawGarbage), Raw(RawClosed), JsonValue("[]")}

RouterHistories ==
    {<<HumanMessage(QPlain)>>,
     <<HumanMessage(QPlain), CriticMessage(1, CritClients), CriticMessage(2, CritClients)>>,
     <<HumanMessage(QPlain),
       ToolMessage("run_sql", Payload(TRUE, 0, ErrWord, FALSE, 0)), CriticMessage(1, CritOther),
       ToolMessage("run_sql", Payload(TRUE, 0, ErrWord, FALSE, 0)), CriticMessage(2, CritOther)>>,
     <<HumanMessage(QPlain), ToolMessage("get_postgres_schema", Text(TxtSchema))>>}

RouterInit ==
    /\ \E h \in RouterHistories, n \in ToolNames, c \in AllContents :
            messages = Append(h, ToolMessage(n, c))
    /\ original_query \in Queries
    /\ critic_attempts \in 0..max_critic_attempts
    /\ query_result = 0
    /\ critic_ran_last = FALSE
    /\ from_cache = FALSE
    /\ cache_reject_query = ""
    /\ pc = "tools_edge"
    /\ last_node = "none"
    /\ asst_mode = "none"
    /\ llm_calls = 0
    /\ llm_trace = <<>>
    /\ via = "chat"
    /\ turns = 1
    /\ faults = 0
    /\ cache = EmptyStore
    /\ cache_ops = NoOps
    /\ reply = NoReply
    /\ runs = NoRuns

\* graph.py 451-460: the edge out of tools evaluates after_tools_decision
Route ==
    /\ pc = "tools_edge"
    /\ pc' = after_tools_decision(messages, critic_attempts, original_query)
    /\ last_node' = "tools"
    /\ UNCHANGED <<messages, original_query, query_result, critic_attempts,
                   critic_ran_last, from_cache, cache_reject_query, asst_mode,
                   llm_calls, llm_trace, via, turns, faults, cache, cache_ops, reply, runs>>

RouterSpec == RouterInit /\ [][Route]_vars

\* ------------------------------------------- the critic on every input
\* critic_node as a function: it is applied to histories with and without a
\* run_sql result, for every value of critic_attempts the router lets in
CriticHistories ==
    LET failed == ToolMessage("run_sql", Payload(FALSE, 0, ErrPlain, FALSE, 0))
        empty == ToolMessage("run_sql", Payload(TRUE, 0, ErrWord, FALSE, 0))
    IN  {<<HumanMessage(QPlain)>>,
         <<HumanMessage(QPlain), AIToolCall("get_postgres_schema"),
           ToolMessage("get_postgres_schema", Text(TxtSchema))>>,
         <<HumanMessage(QPlain), AIToolCall("run_sql"), failed>>,
         <<HumanMessage(QPlain), AIToolCall("run_sql"), failed,
           CriticMessage(1, CritOther), AIToolCall("run_sql"), empty>>,
         <<HumanMessage(QPlain), AIToolCall("run_sql"),
           ToolMessage("run_sql", Raw(RawGarbage))>>}

CriticInit ==
    /\ messages \in CriticHistories
    /\ original_query \in Queries
    /\ critic_attempts \in 0..(max_critic_attempts - 1)
    /\ query_result \in RowCounts
    /\ critic_ran_last = FALSE
    /\ from_cache = FALSE
    /\ cache_reject_query = ""
    /\ pc = "critic"
    /\ last_node = "tools"
    /\ asst_mode = "none"
    /\ llm_calls = 0
    /\ llm_trace = <<>>
    /\ via = "chat"
    /\ turns = 1
    /\ faults = 0
    /\ cache = EmptyStore
    /\ cache_ops = NoOps
    /\ reply = NoReply
    /\ runs = NoRuns

CriticSpec == CriticInit /\ [][Critic]_vars

\* ---------------------------------------- the assistant on every input
\* assistant as a function: it is applied to the states in which the graph
\* enters it, after short histories and after histories longer than the
\* recent-history view
FirstTurn ==
    <<HumanMessage(QPlain), AIMessage(Text(TxtAnswer))>>

\* a turn with n failing executions, each followed by a critique and the
\* tool call of the repair
RepairRounds(q, n) ==
    LET failed == ToolMessage("run_sql", Payload(FALSE, 0, ErrPlain, FALSE, 0))
        round(k) == <<failed, CriticMessage(k, CritOther), AIToolCall("run_sql")>>
    IN  <<HumanMessage(q), AIToolCall("run_sql")>>
        \o (IF n >= 1 THEN round(1) ELSE <<>>)
        \o (IF n >= 2 THEN round(2) ELSE <<>>)
        \o (IF n >= 3 THEN round(3) ELSE <<>>)

\* the states in which the router hands a run_sql result to assistant
AssistantInputs ==
    {[messages |-> <<HumanMessage(q)>>, critic_attempts |-> 0, query_result |-> qr,
      original_query |-> q] : q \in Queries, qr \in RowCounts}
    \cup {[messages |-> FirstTurn \o RepairRounds(q, 3)
                        \o <<ToolMessage("run_sql", Payload(FALSE, 0, ErrPlain, FALSE, 0)),
                             CriticMessage(3, CritClients)>>,
           critic_attempts |-> 3, query_result |-> 0, original_query |-> q] : q \in Queries}
    \cup {i \in [messages : {pre \o RepairRounds(q, n) \o <<ToolMessage("run_sql", c)>> :
                                pre \in {<<>>, FirstTurn}, q \in Queries, n \in {0, 3},
                                c \in RunSqlResults},
                  critic_attempts : {0, 3},
                  query_result : RowCounts,
                  original_query : Queries] :
            /\ i.original_query = i.messages[LastHumanIdx(i.messages)].content.text
            /\ i.critic_attempts = Len(critic_messages(i.messages))
            /\ i.query_result = (IF Parses(Last(i.messages).content)
                                    /\ Last(i.messages).content.success
                                 THEN Last(i.messages).content.data ELSE 0)
            /\ after_tools_decision(i.messages, i.critic_attempts, i.original_query)
                    = "assistant"}

AssistantInit ==
    /\ \E i \in AssistantInputs :
            /\ messages = i.messages
            /\ critic_attempts = i.critic_attempts
            /\ query_result = i.query_result
            /\ original_query = i.original_query
    /\ critic_ran_last = (critic_attempts > 0)
    /\ from_cache = FALSE
    /\ cache_reject_query = ""
    /\ pc = "assistant"
    /\ last_node = IF IsCritic(Last(messages)) THEN "critic"
                   ELSE IF Last(messages).type = "tool" THEN "tools"
                   ELSE "checked_cache"
    /\ asst_mode = "none"
    /\ llm_calls = 0
    /\ llm_trace = <<>>
    /\ via = "chat"
    /\ turns = 1
    /\ faults = 0
    /\ cache = EmptyStore
    /\ cache_ops = NoOps
    /\ reply = NoReply
    /\ runs = NoRuns

AssistantSpec == AssistantInit /\ [][AssistantStep]_vars

\* ------------------------------------------------------------------ claims
Attempts == 0..(max_critic_attempts + 1)

LastIsRunSql == Len(messages) > 0 /\ IsRunSqlResult(Last(messages))

\* the message before the last: what the assistant step that ran last saw
PrevMsg == messages[Len(messages) - 1]

AssistantRanOnResult ==
    last_node = "assistant" /\ Len(messages) >= 2 /\ IsRunSqlResult(PrevMsg)

CriticsThisTurn ==
    Cardinality({i \in (LastHumanIdx(messages) + 1)..Len(messages) : IsCritic(messages[i])})

\* a run_sql result that parses, with success = false and no connection error
FailedResult(m) ==
    /\ IsRunSqlResult(m)
    /\ Parses(m.content)
    /\ ~m.content.success
    /\ ~m.content.is_connection_error

\* C1: whenever the last message is a run_sql result flagged as a connection
\* error, after_tools_decision gives END for every critic_attempts and every
\* question, whatever success, row_count, error text and critic history are,
\* and the run has ended: the critic step is not entered.
C1_ConnectionErrorTerminates ==
    (LastIsRunSql /\ RouterView(Last(messages).content).is_connection_error)
        => /\ \A ca \in Attempts, q \in Queries :
                after_tools_decision(messages, ca, q) = "END"
           /\ pc \in {"END", "idle"}

\* C1 witness: a connection error reported with success = true, after two
\* repairs whose critiques both name the sentinel table
C1_Witness ==
    /\ LastIsRunSql
    /\ Parses(Last(messages).content)
    /\ Last(messages).content.is_connection_error
    /\ Last(messages).content.success
    /\ critic_attempts = 2
    /\ CriticLoopsOnClients(messages)
    /\ pc = "END"

\* C2: critic_attempts changes only in the critic step, by exactly +1 (and
\* to 0 when the Cache Gate opens a turn); the critic step is entered only
\* with critic_attempts < 3; so critic_attempts never exceeds 3 and equals
\* the number of critic steps of the turn, at most 3.
C2_CriticBudget ==
    /\ [](critic_attempts <= max_critic_attempts)
    /\ [](pc = "critic" => critic_attempts < max_critic_attempts)
    /\ [](pc # "checked_cache" => CriticsThisTurn = critic_attempts)
    /\ [][critic_attempts' # critic_attempts =>
            \/ pc = "critic" /\ critic_attempts' = critic_attempts + 1
            \/ pc = "checked_cache" /\ critic_attempts' = 0]_vars

\* C2 witness: the third critic step of a turn has run
C2_Witness ==
    /\ last_node = "critic"
    /\ critic_attempts = 3
    /\ CriticsThisTurn = 3

\* C3 as claimed: with critic_attempts >= 3 a failed run_sql result goes to
\* assistant, and that assistant step appends the deterministic fallback
\* without a model call, for every error text, empty or not.
C3_Original ==
    /\ (last_node = "tools" /\ LastIsRunSql /\ FailedResult(Last(messages))
          /\ critic_attempts >= 3) => pc = "assistant"
    /\ (AssistantRanOnResult /\ FailedResult(PrevMsg) /\ critic_attempts >= 3)
          => /\ asst_mode = "fallback"
             /\ llm_calls = 0
             /\ Last(messages) = FallbackMessage(PrevMsg.content)

\* C3 amended: with critic_attempts >= 3 a failed run_sql result goes to
\* assistant, never to critic, for every error text and row_count; the
\* assistant step appends the deterministic fallback without a model call
\* when the trimmed error text is non-empty, and calls the model when it is
\* empty.
C3_FallbackOnNonEmptyError ==
    /\ (last_node = "tools" /\ LastIsRunSql /\ FailedResult(Last(messages))
          /\ critic_attempts >= 3) => pc = "assistant"
    /\ (AssistantRanOnResult /\ FailedResult(PrevMsg) /\ critic_attempts >= 3)
          => IF Strip(PrevMsg.content.error) # ""
             THEN /\ asst_mode = "fallback"
                  /\ llm_calls = 0
                  /\ Last(messages) = FallbackMessage(PrevMsg.content)
             ELSE /\ asst_mode \in {"visneed", "present", "default"}
                  /\ llm_calls >= 1

\* C3 witness: the fallback after a failed result with row_count > 0
C3_Witness ==
    /\ AssistantRanOnResult
    /\ FailedResult(PrevMsg)
    /\ PrevMsg.content.row_count = 2
    /\ critic_attempts = 3
    /\ asst_mode = "fallback"

\* a run_sql result that parses, with success = true and row_count = 0
ZeroRowSuccess(m) ==
    /\ IsRunSqlResult(m)
    /\ Parses(m.content)
    /\ m.content.success
    /\ m.content.row_count = 0

NamesError(m) == Contains(Lower(m.content.error), "error")

\* the two most recent messages tagged sql_critic both contain 'clients'
LastTwoCriticsNameClients ==
    LET idx == {i \in 1..Len(messages) : IsCritic(messages[i])}
    IN  \E i, j \in idx :
            /\ i < j
            /\ \A k \in idx : k <= i \/ k = j
            /\ Contains(Lower(messages[i].content.text), "clients")
            /\ Contains(Lower(messages[j].content.text), "clients")

\* C4 as claimed: a run_sql result with success = true and row_count = 0 (no
\* connection error) is routed to assistant for every critic_attempts, every
\* error text and every critic history.
C4_Original ==
    (LastIsRunSql /\ ZeroRowSuccess(Last(messages))
       /\ ~Last(messages).content.is_connection_error)
        => /\ \A ca \in Attempts, q \in Queries :
                after_tools_decision(messages, ca, q) = "assistant"
           /\ last_node = "tools" => pc = "assistant"

\* C4 amended: a run_sql result with success = true and row_count = 0 (no
\* connection error) is never routed to graph_vis or END; it is routed to
\* critic exactly when its error text contains 'error' (any case),
\* critic_attempts < 3 and no loop guard triggers, and to assistant otherwise.
C4_EmptyResultToAssistant ==
    (LastIsRunSql /\ ZeroRowSuccess(Last(messages))
       /\ ~Last(messages).content.is_connection_error)
        => /\ \A ca \in Attempts, q \in Queries :
                after_tools_decision(messages, ca, q) =
                    IF /\ NamesError(Last(messages))
                       /\ ca < 3
                       /\ ~LastTwoCriticsNameClients
                       /\ ~(/\ zero_rows_in_current_request(messages) >= 3
                            /\ Len(critic_messages(messages)) >= 2)
                    THEN "critic"
                    ELSE "assistant"
           /\ (last_node = "tools" /\ ~NamesError(Last(messages))) => pc = "assistant"

\* C4 witness: an empty result without error text after two repairs, routed
\* to assistant
C4_Witness ==
    /\ last_node = "tools"
    /\ LastIsRunSql
    /\ ZeroRowSuccess(Last(messages))
    /\ Last(messages).content.error = ErrNone
    /\ ~Last(messages).content.is_connection_error
    /\ critic_attempts = 2
    /\ pc = "assistant"

\* C5: when the assistant step runs on a run_sql result with success = true
\* and row_count = 0, for every critic_attempts, it calls no model and
\* appends exactly one message, the no-data message for original_query; the
\* run then ends with from_cache not true.
C5_NoDataMessage ==
    /\ []((LastIsRunSql /\ ZeroRowSuccess(Last(messages)))
            => \A ca \in Attempts : assistant_rule(messages, ca) = "nodata")
    /\ []((AssistantRanOnResult /\ ZeroRowSuccess(PrevMsg))
            => /\ asst_mode = "nodata"
               /\ llm_calls = 0
               /\ Last(messages) = AIMessage(_final_no_data_message(original_query))
               /\ pc \in {"END", "idle"}
               /\ from_cache = FALSE)
    /\ [][(pc = "assistant" /\ LastIsRunSql /\ ZeroRowSuccess(Last(messages)))
            => /\ messages' = Append(messages,
                                     AIMessage(_final_no_data_message(original_query)))
               /\ llm_calls' = 0
               /\ pc' = "END"]_vars

\* C5 witness: the no-data message with the budget exhausted, for a question
\* that asks for a chart
C5_Witness ==
    /\ AssistantRanOnResult
    /\ ZeroRowSuccess(PrevMsg)
    /\ critic_attempts = 3
    /\ _is_vis_request(original_query)
    /\ Last(messages) = AIMessage(TextAbout(TxtNoDataFor, original_query))
    /\ pc = "END"

\* C6 as claimed: when the two most recent critic messages both contain
\* 'clients', a failing run_sql result with critic_attempts < 3 is routed to
\* assistant.
C6_Original ==
    (LastIsRunSql /\ LastTwoCriticsNameClients
       /\ ~RouterView(Last(messages).content).success)
        => /\ \A ca \in 0..2, q \in Queries :
                after_tools_decision(messages, ca, q) = "assistant"
           /\ (last_node = "tools" /\ critic_attempts < 3) => pc = "assistant"

\* C6 amended: when the two most recent critic messages both contain
\* 'clients', a failing run_sql result that is not a connection error, with
\* critic_attempts < 3, is routed to assistant and not to critic.
C6_ClientsLoopEscapes ==
    (LastIsRunSql /\ LastTwoCriticsNameClients
       /\ ~RouterView(Last(messages).content).success
       /\ ~RouterView(Last(messages).content).is_connection_error)
        => /\ \A ca \in 0..2, q \in Queries :
                after_tools_decision(messages, ca, q) = "assistant"
           /\ (last_node = "tools" /\ critic_attempts < 3) => pc = "assistant"

\* C6 witness: the second repair of a turn fails again, both critiques name
\* the sentinel table, and the router leaves the loop
C6_Witness ==
    /\ last_node = "tools"
    /\ LastIsRunSql
    /\ FailedResult(Last(messages))
    /\ Strip(Last(messages).content.error) # ""
    /\ LastTwoCriticsNameClients
    /\ Len(critic_messages(messages)) = 2
    /\ critic_attempts = 2
    /\ pc = "assistant"

\* C7 as claimed: the third run_sql result of a turn with success = true and
\* row_count = 0 is routed to assistant whatever critic_attempts, the critic
\* history and the error text are.
C7_Original ==
    (LastIsRunSql /\ ZeroRowSuccess(Last(messages))
       /\ zero_rows_in_current_request(messages) >= 3)
        => /\ \A ca \in Attempts, q \in Queries :
                after_tools_decision(messages, ca, q) = "assistant"
           /\ last_node = "tools" => pc = "assistant"

\* C7 amended: the third run_sql result of a turn with success = true and
\* row_count = 0, when it is not a connection error and the history holds at
\* least two critic messages, is routed to assistant whatever critic_attempts
\* and the error text are; and the history does hold two critic messages
\* whenever a turn gets to a third such result.
C7_ZeroRowsLoopEscapes ==
    /\ (LastIsRunSql /\ ZeroRowSuccess(Last(messages))
          /\ zero_rows_in_current_request(messages) >= 3
          /\ ~Last(messages).content.is_connection_error
          /\ Len(critic_messages(messages)) >= 2)
        => /\ \A ca \in Attempts, q \in Queries :
                after_tools_decision(messages, ca, q) = "assistant"
           /\ last_node = "tools" => pc = "assistant"
    /\ (LastIsRunSql /\ ZeroRowSuccess(Last(messages))
          /\ zero_rows_in_current_request(messages) >= 3)
        => Len(critic_messages(messages)) >= 2

\* C7 witness: three empty results whose error text names an error, two
\* repairs that do not name the sentinel table, and the router leaves the loop
C7_Witness ==
    /\ last_node = "tools"
    /\ LastIsRunSql
    /\ ZeroRowSuccess(Last(messages))
    /\ NamesError(Last(messages))
    /\ zero_rows_in_current_request(messages) = 3
    /\ critic_attempts = 2
    /\ ~LastTwoCriticsNameClients
    /\ pc = "assistant"

\* a run_sql result that parses, with success = true, row_count > 0,
\* non-empty data and no connection error
RowsResult(m) ==
    /\ IsRunSqlResult(m)
    /\ Parses(m.content)
    /\ m.content.success
    /\ m.content.row_count > 0
    /\ m.content.data > 0
    /\ ~m.content.is_connection_error

NoLoopGuard ==
    /\ ~LastTwoCriticsNameClients
    /\ ~(/\ zero_rows_in_current_request(messages) >= 3
         /\ Len(critic_messages(messages)) >= 2)

C9_PresentNeverCallsTools ==
    (last_node = "assistant" /\ asst_mode = "present" /\ _is_vis_request(original_query))
        => pc # "tools"

\* the first failing execution of a turn: success = false, non-empty error,
\* no connection error, no loop guard, critic_attempts = 0
FailingFirst ==
    /\ last_node = "tools"
    /\ LastIsRunSql
    /\ FailedResult(Last(messages))
    /\ Strip(Last(messages).content.error) # ""
    /\ NoLoopGuard
    /\ critic_attempts = 0

\* C10: after the first failing execution of a turn the next step is critic,
\* which makes critic_attempts 1 and appends one critic message; the step
\* after it is assistant in repair mode; and when that step gives a tool
\* call, the step after it is tools, which appends a run_sql result.
C10_RepairRound ==
    /\ [](FailingFirst => pc = "critic")
    /\ [][FailingFirst
            => /\ last_node' = "critic"
               /\ critic_attempts' = 1
               /\ Len(messages') = Len(messages) + 1
               /\ SubSeq(messages', 1, Len(messages)) = messages
               /\ IsCritic(Last(messages'))
               /\ pc' = "assistant"]_vars
    /\ [][(last_node = "critic" /\ IsCritic(Last(messages)))
            => /\ last_node' = "assistant"
               /\ asst_mode' = "repair"
               /\ pc' = IF Last(messages').tool_call # "" THEN "tools" ELSE "END"]_vars
    /\ [][(last_node = "assistant" /\ asst_mode = "repair" /\ pc = "tools")
            => /\ last_node' = "tools"
               /\ Len(messages') = Len(messages) + 1
               /\ IsRunSqlResult(Last(messages'))]_vars

\* C10 witness: the execution that follows the first repair of a turn for a
\* question that asks for a chart: failing result, critic message, tool call
\* of the repair, new result
C10_Witness ==
    /\ last_node = "tools"
    /\ asst_mode = "repair"
    /\ critic_attempts = 1
    /\ _is_vis_request(original_query)
    /\ Len(messages) >= 4
    /\ IsRunSqlResult(Last(messages))
    /\ messages[Len(messages) - 1].tool_call = "run_sql"
    /\ IsCritic(messages[Len(messages) - 2])
    /\ FailedResult(messages[Len(messages) - 3])
    /\ messages[Len(messages) - 3].content.error = ErrPlain

\* the tool-result messages appended since the last human message
ToolResultsThisTurn ==
    Cardinality({i \in (LastHumanIdx(messages) + 1)..Len(messages) :
                    messages[i].type = "tool"})

\* C11: a turn that accepts the cached answer at the Cache Gate goes from
\* checked_cache to END: with from_cache true no assistant, tools, critic or
\* visualization step runs, no tool-result message is appended in the turn,
\* and the call returns from_cache = true (and leaves the cache as it is).
C11_CacheAcceptShortCircuit ==
    /\ [][(pc = "suspended" /\ from_cache')
            => /\ pc' = "END"
               /\ last_node' = "checked_cache"
               /\ Len(messages') = Len(messages) + 1
               /\ Last(messages').type = "ai"
               /\ Last(messages').tool_call = ""]_vars
    /\ [](from_cache => pc \in {"END", "idle", "checked_cache"})
    /\ []((from_cache /\ pc \in {"END", "idle"})
            => last_node = "checked_cache" /\ ToolResultsThisTurn = 0)
    /\ [][(from_cache /\ pc = "END")
            => /\ pc' = "idle"
               /\ reply' = Completed(Last(messages).content, TRUE)
               /\ cache' = cache]_vars

\* C11 witness: the second turn of a session has accepted the cached answer
\* and the call has returned it
C11_Witness ==
    /\ pc = "idle"
    /\ from_cache
    /\ turns = 2
    /\ reply.status = "ok"
    /\ reply.from_cache
    /\ reply.response = Text(TxtCached)
    /\ ToolResultsThisTurn = 0

\* C12: add_documents is called only when a run has ended, from_cache is not
\* true and the response is not classified as an error, on the chat and on
\* the chat_resume path; the number of entries grows only by such a call; a
\* suspended turn has not written to the cache and does not change it.
C12_CacheWriteGuard ==
    /\ [][cache_ops'.add > cache_ops.add
            => /\ pc = "END"
               /\ pc' = "idle"
               /\ ~from_cache
               /\ ~is_error(Last(messages).content)
               /\ reply'.status = "ok"
               /\ cache_ops'.add = cache_ops.add + 1]_vars
    /\ [][(\E q \in Queries : cache'[q] > cache[q])
            => cache_ops'.add > cache_ops.add]_vars
    /\ [](pc = "suspended" => cache_ops = NoOps /\ reply.status = "needs_human_input")
    /\ [][(pc = "suspended" \/ pc' = "suspended") => cache' = cache]_vars

\* C12 witness: a turn that rejected the cached answer has ended on the
\* chat_resume path with an answer that was written to the cache
C12_Witness ==
    /\ pc = "idle"
    /\ via = "resume"
    /\ ~from_cache
    /\ ~is_error(reply.response)
    /\ cache_ops = [add |-> 1, delete |-> 1]
    /\ cache[original_query] = 1

\* the turn went through the suspension of the Cache Gate
TurnWasSuspended == from_cache \/ cache_reject_query # ""

\* C13: a second chat_resume with the same data after the one suspension of
\* a turn calls neither add_documents nor delete_cache_entry and runs no
\* tool.
C13_ResumeTwiceWritesOnce ==
    [][(pc = "idle" /\ via = "resume" /\ TurnWasSuspended /\ via' = "resume")
        => /\ cache_ops' = cache_ops
           /\ cache' = cache
           /\ messages' = messages]_vars

\* C14: for one session at most one run is active at any time.
C14_OneActiveRunPerSession ==
    \A r1, r2 \in 1..Len(runs) :
        (r1 # r2 /\ runs[r1].session = runs[r2].session)
            => ~(Active(r1) /\ Active(r2))

\* C15: when all the requests are chat requests of one session with the same
\* question, the cache holds at most one entry for that question.
C15_OneEntryPerQuestion ==
    \A s \in Sessions, q \in Queries :
        (\A r \in 1..Len(runs) : runs[r].session = s /\ runs[r].question = q)
            => cache[q] <= 1

\* C16: for every tool name, every content of the last tool message and
\* every critic_attempts, after_tools_decision returns assistant, critic,
\* graph_vis or END, and does not raise.
C16_RouterTotal ==
    last_node = "tools" => pc \in {"assistant", "critic", "graph_vis", "END"}

\* C17: while a turn is suspended at the Cache Gate, every operation other
\* than chat_resume for the session leaves the suspension and the frozen
\* Session State as they are.
C17_SuspensionSurvives ==
    [][(pc = "suspended" /\ via' # "resume")
        => /\ pc' = "suspended"
           /\ messages' = messages
           /\ original_query' = original_query]_vars

\* C18: when the first step of a turn after the Cache Gate is about to run
\* (the last message is the new human message), critic_attempts is 0,
\* whatever it was when the turn before ended; the Cache Gate sets it to 0;
\* within a turn it never decreases.
C18_BudgetPerTurn ==
    /\ [](((pc = "assistant" /\ Last(messages).type = "human") \/ pc = "suspended")
            => critic_attempts = 0)
    /\ [][pc = "checked_cache" => critic_attempts' = 0]_vars
    /\ [][pc # "checked_cache" => critic_attempts' >= critic_attempts]_vars

\* C18 witness: the second turn of a session starts with critic_attempts = 0
\* after a first turn that ended with critic_attempts = 2
C18_Witness ==
    /\ pc = "assistant"
    /\ turns = 2
    /\ Last(messages).type = "human"
    /\ critic_attempts = 0
    /\ Cardinality({i \in 1..Len(messages) : IsCritic(messages[i])}) = 2

\* C19: when a turn is ended by a connection error, the response of the call
\* is not the content of the tool-result message, and the last message of
\* the turn is not a tool-result message.
C19_ConnectionErrorReply ==
    (/\ pc = "idle"
     /\ reply.status = "ok"
     /\ last_node = "tools"
     /\ LastIsRunSql
     /\ RouterView(Last(messages).content).is_connection_error)
        => /\ Last(messages).type # "tool"
           /\ reply.response.kind = "text"
           /\ reply.response.text # ""

SchemaCallsThisTurn ==
    Cardinality({i \in (LastHumanIdx(messages) + 1)..Len(messages) :
                    messages[i].type = "tool" /\ messages[i].name = "get_postgres_schema"})

\* C20: a get_postgres_schema result ends the run exactly when it is at
\* least the second one since the last human message.
C20_SchemaLimitPerTurn ==
    (/\ last_node = "tools"
     /\ Last(messages).type = "tool"
     /\ Last(messages).name = "get_postgres_schema")
        => (pc \in {"END", "idle"} <=> SchemaCallsThisTurn >= 2)

\* C21: for a run_sql result without connection error and with no loop guard
\* triggered, the router gives critic when critic_attempts < 3 and the
\* execution failed or the error text is non-empty, and does not give critic
\* when it succeeded with an empty error text.
C21_ErrorGoesToCritic ==
    (/\ last_node = "tools"
     /\ LastIsRunSql
     /\ Last(messages).content.kind # "value"
     /\ ~RouterView(Last(messages).content).is_connection_error
     /\ NoLoopGuard)
        => LET r == RouterView(Last(messages).content)
           IN  /\ (critic_attempts < max_critic_attempts /\ (~r.success \/ r.error_text # ""))
                    => pc = "critic"
               /\ (r.success /\ r.error_text = "") => pc # "critic"

\* C22: every assistant step, on every branch, appends exactly one message,
\* an assistant text or an assistant tool call, and leaves the earlier
\* messages and every other field of the Session State as they were, also
\* when the history is longer than the 12-message view.
C22_AssistantAppendsOne ==
    [][pc = "assistant"
        => /\ Len(messages') = Len(messages) + 1
           /\ SubSeq(messages', 1, Len(messages)) = messages
           /\ Last(messages').type = "ai"
           /\ ~IsCritic(Last(messages'))
           /\ UNCHANGED <<original_query, query_result, critic_attempts, critic_ran_last,
                          from_cache, cache_reject_query>>]_vars

\* C22 witness: an assistant step that called the model on a history of 14
\* messages, two more than the view holds
C22_Witness ==
    /\ last_node = "assistant"
    /\ Len(messages) = MAX_HISTORY + 3
    /\ Len(messages_for_llm(SubSeq(messages, 1, Len(messages) - 1))) = MAX_HISTORY
    /\ asst_mode \in {"repair", "visneed", "present", "default"}
    /\ llm_calls >= 1

\* C23: an assistant step invokes the model at most twice; a second
\* invocation is made exactly when the first failed with a malformed tool
\* call; when the retry fails too the step appends the apology message; any
\* other failure of the first invocation gives the temporary-error message
\* without a retry; and the step always ends with its message appended and
\* the run going on to tools or END.
C23_ModelFailuresContained ==
    /\ [](/\ llm_calls = Len(llm_trace)
          /\ llm_calls <= 2
          /\ (llm_calls = 2 <=> (llm_calls >= 1 /\ llm_trace[1] = "tool_use_failed")))
    /\ [](last_node = "assistant" =>
            /\ (llm_calls = 2 /\ llm_trace[2] # "ok")
                    => Last(messages) = AIMessage(Text(TxtApology))
            /\ (llm_calls >= 1 /\ llm_trace[1] = "other_error")
                    => Last(messages) = AIMessage(Text(TxtTempError))
            /\ pc \in {"tools", "END", "idle"})
    /\ [][pc = "assistant"
            => /\ last_node' = "assistant"
               /\ Len(messages') = Len(messages) + 1
               /\ pc' \in {"tools", "END"}]_vars

\* C23 witness: the first invocation failed with a malformed tool call, the
\* retry failed too, and the step ended with the apology message
C23_Witness ==
    /\ last_node = "assistant"
    /\ llm_trace = <<"tool_use_failed", "other_error">>
    /\ Last(messages) = AIMessage(Text(TxtApology))
    /\ pc = "END"

HasRunSqlResult(msgs) == \E i \in 1..Len(msgs) : IsRunSqlResult(msgs[i])

\* C24: every critic step adds exactly 1 to critic_attempts and hands over
\* to assistant; without a run_sql result in the history it leaves the
\* messages as they are, and otherwise it appends exactly one message tagged
\* sql_critic (the critique, or the degraded one when the critic model
\* failed) after the unchanged earlier messages.
C24_CriticStep ==
    [][pc = "critic"
        => /\ critic_attempts' = critic_attempts + 1
           /\ pc' = "assistant"
           /\ last_node' = "critic"
           /\ IF HasRunSqlResult(messages)
              THEN /\ Len(messages') = Len(messages) + 1
                   /\ SubSeq(messages', 1, Len(messages)) = messages
                   /\ IsCritic(Last(messages'))
              ELSE messages' = messages]_vars

\* C24 witness: the critic step ran on a history without run_sql result:
\* the counter went from 2 to 3 and no message was appended
C24_Witness ==
    /\ last_node = "critic"
    /\ ~HasRunSqlResult(messages)
    /\ critic_attempts = 3
    /\ pc = "assistant"
    /\ Last(messages).type = "tool"

\* C25: after a critic step that appended a message tagged sql_critic the
\* next step is assistant; neither deterministic rule fires on that message,
\* the mode is repair for every query_result, question and critic_attempts,
\* and a model reply in that mode is a run_sql tool call.
C25_RepairAfterCritic ==
    /\ []((last_node = "critic" /\ IsCritic(Last(messages)))
            => /\ pc = "assistant"
               /\ \A ca \in Attempts : assistant_rule(messages, ca) = "llm"
               /\ \A qr \in RowCounts, q \in Queries :
                        assistant_mode(messages, qr, q) = "repair")
    /\ [][(last_node = "critic" /\ IsCritic(Last(messages)))
            => /\ last_node' = "assistant"
               /\ asst_mode' = "repair"
               /\ llm_calls' >= 1
               /\ (llm_trace' = <<"ok">> => Last(messages') = AIToolCall("run_sql"))]_vars

\* C25 witness: repair mode after the third critic step of a turn, for a
\* question that asks for a chart, with a non-empty query_result
C25_Witness ==
    /\ last_node = "assistant"
    /\ asst_mode = "repair"
    /\ IsCritic(PrevMsg)
    /\ critic_attempts = 3
    /\ query_result > 0
    /\ _is_vis_request(original_query)
    /\ Last(messages) = AIToolCall("run_sql")

VisStages == {"graph_vis", "review_visualization", "safe_exec"}

\* C26: graph_vis is entered only from the tools step, when
\* after_tools_decision gives graph_vis; the stages run in the order
\* graph_vis, review_visualization, safe_exec and the run then ends; no stage
\* is followed by critic, tools or assistant, and critic_attempts and the
\* messages are as they were when the chain was entered.
C26_VisualizationChain ==
    /\ [][(pc' = "graph_vis" /\ pc # "graph_vis")
            => /\ pc = "tools"
               /\ after_tools_decision(messages', critic_attempts, original_query)
                    = "graph_vis"]_vars
    /\ [][(pc' \in VisStages \ {"graph_vis"} /\ pc' # pc) => pc \in VisStages]_vars
    /\ [][(pc \in VisStages)
            => /\ pc' = (IF pc = "graph_vis" THEN "review_visualization"
                         ELSE IF pc = "review_visualization" THEN "safe_exec"
                         ELSE "END")
               /\ last_node' = pc
               /\ critic_attempts' = critic_attempts
               /\ messages' = messages]_vars
    /\ [](last_node \in VisStages => pc \in VisStages \cup {"END", "idle"})

\* C26 witness: the chain ran to its end in a turn that had two repairs
C26_Witness ==
    /\ pc = "END"
    /\ last_node = "safe_exec"
    /\ critic_attempts = 2
    /\ CriticsThisTurn = 2
    /\ RowsResult(Last(messages))

\* C27: when chat_resume has returned a completed turn whose cached answer
\* the human rejected (from_cache not true, cache_reject_query non-empty),
\* delete_cache_entry was called exactly once for the turn and before the
\* write of the new answer, so the written entry is in the cache; when
\* from_cache is true no invalidation was made.
C27_RejectInvalidatesOnce ==
    (pc = "idle" /\ via = "resume" /\ reply.status = "ok")
        => IF from_cache
           THEN cache_ops.delete = 0
           ELSE (Strip(cache_reject_query) # "")
                    => /\ cache_ops.delete = 1
                       /\ Writes(Strip(original_query), reply.response)
                            => cache[Strip(original_query)] >= 1

\* C28: critic_ran_last is true only when the step that ran last was the
\* critic step.
C28_CriticRanLastIsFresh == critic_ran_last => last_node = "critic"

UnparsableResult(m) == IsRunSqlResult(m) /\ m.content.kind = "raw"

\* where the run is once the edge out of tools gave `decision`
AfterDecision(decision) == IF decision = "END" THEN {"END", "idle"} ELSE {decision}

\* C29 as claimed: a run_sql result that is not JSON is routed to critic when
\* critic_attempts < 3 and no loop guard triggers, and to assistant
\* otherwise, whatever its text.
C29_Original ==
    (LastIsRunSql /\ UnparsableResult(Last(messages)))
        => /\ \A ca \in Attempts, q \in Queries :
                after_tools_decision(messages, ca, q) =
                    IF ca < max_critic_attempts /\ NoLoopGuard THEN "critic" ELSE "assistant"
           /\ last_node = "tools"
                => pc = IF critic_attempts < max_critic_attempts /\ NoLoopGuard
                        THEN "critic" ELSE "assistant"

\* C29 amended: a run_sql result that is not JSON is routed to END when its
\* text contains 'server closed' (any case); otherwise to critic when
\* critic_attempts < 3 and no loop guard triggers, and to assistant in the
\* remaining cases.
C29_UnparsableResult ==
    (LastIsRunSql /\ UnparsableResult(Last(messages)))
        => LET decision(ca) ==
                    IF Contains(Lower(Last(messages).content.text), "server closed")
                    THEN "END"
                    ELSE IF ca < max_critic_attempts /\ NoLoopGuard THEN "critic"
                    ELSE "assistant"
           IN  /\ \A ca \in Attempts, q \in Queries :
                    after_tools_decision(messages, ca, q) = decision(ca)
               /\ last_node = "tools" => pc \in AfterDecision(decision(critic_attempts))

\* C29 witness: after one repair the execution gives text that is not JSON
\* and tells of a closed connection, and the run ends
C29_Witness ==
    /\ last_node = "tools"
    /\ LastIsRunSql
    /\ Last(messages).content = Raw(RawClosed)
    /\ critic_attempts = 1
    /\ pc = "END"

\* C30: a turn that ends for every sequence of model outputs and tool
\* results never comes back to the assistant step in the situation it was in
\* one assistant-tools cycle before.  Here the run is back at assistant, no
\* deterministic rule ends it, and the run_sql result it is on is the one
\* the same turn already had two messages before, with nothing but the
\* assistant's tool call between: critic_attempts, query_result, the critic
\* messages and the counts the router reads are all as they were then.
C30_NoCycleWithoutCritic ==
    ~(/\ last_node = "tools"
      /\ pc = "assistant"
      /\ Len(messages) >= LastHumanIdx(messages) + 4
      /\ IsRunSqlResult(Last(messages))
      /\ PrevMsg.tool_call = "run_sql"
      /\ messages[Len(messages) - 2] = Last(messages)
      /\ assistant_rule(messages, critic_attempts) = "llm")

\* C31: the routing of a run_sql result does not depend on critic messages
\* of earlier turns of the session: the first failing execution of a turn
\* (no critic message since the last human message, no connection error)
\* with critic_attempts < 3 is sent to critic.
C31_RoutingIgnoresEarlierTurns ==
    (/\ last_node = "tools"
     /\ LastIsRunSql
     /\ FailedResult(Last(messages))
     /\ CriticsThisTurn = 0
     /\ critic_attempts < max_critic_attempts)
        => pc = "critic"

\* the contents the assistant step builds without the model: both no-data
\* variants (graph.py 66-76), the repair-exhausted fallback (104-111), the
\* malformed-call apology (214) and the temporary-error message (217)
SynthesizedContents ==
    {_final_no_data_message(q) : q \in Queries \cup {ErrNone, ErrBlank}}
        \cup {FallbackMessage(r).content :
                  r \in {x \in RunSqlResults :
                            Parses(x) /\ ~x.success /\ Strip(x.error) # ""}}
        \cup {Text(TxtApology), Text(TxtTempError)}

LocallySynthesized(m) ==
    m.type = "ai" /\ m.name = "" /\ m.tool_call = "" /\ m.content \in SynthesizedContents

\* the write-back's classifier on each of these contents
SynthesizedAreErrors == \A c \in SynthesizedContents : is_error(c)

\* C32: when a run has ended on a locally synthesized message of the
\* assistant step, the write-back classifies it as an error, as it does each
\* of the synthesized contents, and adds nothing to the cache: no call of
\* add_documents, no entry more for any question.
C32_SynthesizedNeverCached ==
    [][(pc = "END" /\ LocallySynthesized(Last(messages)))
         => /\ is_error(Last(messages).content)
            /\ SynthesizedAreErrors
            /\ cache_ops'.add = cache_ops.add
            /\ \A q \in Queries : cache'[q] <= cache[q]]_vars

\* C32 witness: a turn ended on the no-data message, its write-back ran and
\* wrote nothing, and the same question asked again in the next turn has
\* passed the Cache Gate without a cached answer
C32_Witness ==
    /\ turns = 2
    /\ pc = "assistant"
    /\ last_node = "checked_cache"
    /\ via = "chat"
    /\ Last(messages) = HumanMessage(original_query)
    /\ messages[1] = Last(messages)
    /\ PrevMsg = AIMessage(_final_no_data_message(original_query))
    /\ reply.status = "ok"
    /\ cache[original_query] = 0

====
